---------------------------- MODULE Spec2Model ----------------------------
(***************************************************************************)
(* Live-capture orchestration of AI_IDS.                                   *)
(*                                                                         *)
(*   src/inference/live_capture_loop.py  the supervisor: the module-level  *)
(*        globals running, loop_thread, last_capture_file; start_capture,  *)
(*        stop_capture, background_loop, capture_once                      *)
(*   src/api/api_server.py               live_status, the status reader    *)
(*                                                                         *)
(* Every action is one step of one thread between two accesses to shared   *)
(* state (a global, the clock, a file); a label such as "L46" is the line  *)
(* of live_capture_loop.py the thread executes next.  The module has no    *)
(* lock, so the steps of different threads interleave freely.              *)
(***************************************************************************)
EXTENDS Integers, Sequences, FiniteSets

\* Calls of start_capture() and stop_capture() made in one behaviour; each
\* start_capture() makes at most one thread.
MaxCalls == 3
\* Control calls in progress at once.
NCallers == 2
\* Non-empty captures the network delivers in one behaviour; each gets a
\* timestamp of its own (datetime.now() at one-second resolution).
MaxCaptures == 2
\* Rows of a results table that live_status is given to read.
MaxRows == 2

Callers == 1..NCallers
Workers == 1..MaxCalls
Stamps == 0..MaxCaptures

\* None, for loop_thread, last_capture_file and a thread's local timestamp.
None == 0

VARIABLES
    running,            \* global running (line 9)
    loop_thread,        \* global loop_thread (line 10): None or a thread
    last_capture_file,  \* global last_capture_file (line 11): None or a stamp
    wpc,                \* each thread object's position
    wts,                \* each worker's local `timestamp` (line 26)
    wpk,                \* each worker's local `packets` (line 21), its length
    wsig,               \* the workers inside sniff (line 21) since whose call
                        \* of sniff stop_capture() was called
    cpc,                \* each control caller's position
    cnoop,              \* the caller's stop_capture() found running false
    calls,              \* control calls made so far
    stopped,            \* stop_capture() was called with no start_capture() in
                        \* progress, and start_capture() was not called since
    now,                \* the last timestamp datetime.now() handed out
    pcaps,              \* live/capture_<stamp>.pcap files on disk
    csv,                \* live/live_predictions.csv
    rpc,                \* the live_status request's position
    rrun,               \* live_status local `running`
    rlast,              \* live_status local `last_capture`
    df,                 \* live_status local `df`
    rflows              \* live_status local `all_flows`

vars == <<running, loop_thread, last_capture_file, wpc, wts, wpk, wsig, cpc, cnoop, calls, stopped,
          now, pcaps, csv, rpc, rrun, rlast, df, rflows>>

supervisor == <<running, loop_thread, last_capture_file, wpc, wts, wpk, wsig, cpc, cnoop,
               calls, stopped>>
history == <<calls, stopped>>
files == <<now, pcaps, csv>>
reader == <<rpc, rrun, rlast, df, rflows>>

----------------------------------------------------------------------------
\* Results tables

\* A cell of the results table is written as a string: a label, an attack
\* type, a float in decimal.  NaN is the float not-a-number, which is also
\* what pandas reads from an empty cell; Inf is the float infinity.
NaN == "nan"
Inf == "inf"

Label3(n) == IF n % 3 = 0 THEN "BENIGN" ELSE IF n % 3 = 1 THEN "ATTACK" ELSE "ANOMALY"

\* run_pipeline's table for the capture stamped ts: ts + 1 ResultRows, each a
\* Label, an Attack_Type (missing unless the label is ATTACK) and a score.
PipelineTable(ts) ==
    [i \in 1..(ts + 1) |->
        [Label |-> Label3(ts + i),
         Attack_Type |-> IF Label3(ts + i) = "ATTACK"
                         THEN (IF i % 2 = 0 THEN "DoS" ELSE "PortScan")
                         ELSE NaN,
         Score |-> IF i = 1 THEN "0.5" ELSE IF i = 2 THEN NaN ELSE Inf]]

\* No live_predictions.csv yet.
NoFile == [exists |-> FALSE, src |-> None, rows |-> <<>>]

\* live_predictions.csv as run_pipeline leaves it for the capture stamped ts.
\* The replacement appears atomic to a reader: the file holds the table
\* before, or this one.
ResultsFile(ts) == [exists |-> TRUE, src |-> ts, rows |-> PipelineTable(ts)]

\* The cells live_status may find in a results file: the three labels it
\* counts and one it does not; attack types, NaN for an empty cell; scores.
Labels == {"BENIGN", "ANOMALY", "ATTACK", "SUSPICIOUS"}
AttackTypeNames == {"DoS", "PortScan"}
Scores == {"0.5", NaN, Inf}

Rows == [Label : Labels, Attack_Type : AttackTypeNames \cup {NaN}, Score : Scores]

\* The results tables of at most MaxRows rows, the header-only table included.
Tables == UNION {[1..n -> Rows] : n \in 0..MaxRows}

\* live/live_predictions.csv holding the table T, whatever wrote it.
FileOf(T) == [exists |-> TRUE, src |-> None, rows |-> T]

----------------------------------------------------------------------------
\* Thread objects

\* Thread.is_alive(): started and not yet terminated.
is_alive(w) == wpc[w] \notin {"unborn", "created", "done", "crashed"}

\* Thread.start() has been called on w.
started(w) == wpc[w] \notin {"unborn", "created"}

unborn == {w \in Workers : wpc[w] = "unborn"}

TypeOK ==
    /\ running \in BOOLEAN
    /\ loop_thread \in {None} \cup Workers
    /\ last_capture_file \in Stamps
    /\ wpc \in [Workers -> {"unborn", "created", "L44", "L46", "L17", "L21",
                            "L29", "L32", "L35", "L38", "L50", "L53",
                            "done", "crashed"}]
    /\ wts \in [Workers -> Stamps]
    /\ wpk \in [Workers -> {0, 1}]
    /\ wsig \subseteq Workers
    /\ cpc \in [Callers -> {"idle", "s60", "s62", "s63", "s64", "s_err",
                            "t73", "t74", "t_err"}]
    /\ cnoop \in [Callers -> BOOLEAN]
    /\ calls \in 0..MaxCalls
    /\ stopped \in BOOLEAN
    /\ now \in Stamps
    /\ pcaps \subseteq (Stamps \ {None})
    /\ csv.exists \in BOOLEAN
    /\ rpc \in {"idle", "r203", "r206", "r207", "r216", "r239", "r243"}

Init ==
    /\ running = FALSE
    /\ loop_thread = None
    /\ last_capture_file = None
    /\ wpc = [w \in Workers |-> "unborn"]
    /\ wts = [w \in Workers |-> None]
    /\ wpk = [w \in Workers |-> 0]
    /\ wsig = {}
    /\ cpc = [c \in Callers |-> "idle"]
    /\ cnoop = [c \in Callers |-> FALSE]
    /\ calls = 0
    /\ stopped = FALSE
    /\ now = 0
    /\ pcaps = {}
    /\ csv = NoFile
    /\ rpc = "idle"
    /\ rrun = FALSE
    /\ rlast = None
    /\ df = <<>>
    /\ rflows = <<>>

\* The server starts beside a results file left in live/ by an earlier run,
\* or beside none.
InitTable ==
    /\ running = FALSE
    /\ loop_thread = None
    /\ last_capture_file = None
    /\ wpc = [w \in Workers |-> "unborn"]
    /\ wts = [w \in Workers |-> None]
    /\ wpk = [w \in Workers |-> 0]
    /\ wsig = {}
    /\ cpc = [c \in Callers |-> "idle"]
    /\ cnoop = [c \in Callers |-> FALSE]
    /\ calls = 0
    /\ stopped = FALSE
    /\ now = 0
    /\ pcaps = {}
    /\ csv \in {NoFile} \cup {FileOf(T) : T \in Tables}
    /\ rpc = "idle"
    /\ rrun = FALSE
    /\ rlast = None
    /\ df = <<>>
    /\ rflows = <<>>

----------------------------------------------------------------------------
\* start_capture (live_capture_loop.py lines 56-65)

\* The positions of a caller inside start_capture().
StartPcs == {"s60", "s62", "s63", "s64", "s_err"}

\* A new control call runs in the lowest caller that is making none.
free(c) == cpc[c] = "idle" /\ \A d \in Callers : d < c => cpc[d] # "idle"

\* Line 59 without its test: start_capture() never takes the early return.
AlreadyRunningUnchecked == FALSE

\* Line 59: `if running`.
AlreadyRunning == running

\* Lines 59-60: the call and its test of running.
start_capture_call(c) ==
    /\ free(c)
    /\ calls < MaxCalls
    /\ calls' = calls + 1
    /\ stopped' = FALSE
    /\ IF AlreadyRunning
       THEN cpc' = [cpc EXCEPT ![c] = "s60"]
       ELSE cpc' = [cpc EXCEPT ![c] = "s62"]
    /\ UNCHANGED <<running, loop_thread, last_capture_file, wpc, wts, wpk, wsig, cnoop>>
    /\ UNCHANGED <<files, reader>>

\* Line 60: `return`, running was true.
start_capture_return(c) ==
    /\ cpc[c] = "s60"
    /\ cpc' = [cpc EXCEPT ![c] = "idle"]
    /\ UNCHANGED <<running, loop_thread, last_capture_file, wpc, wts, wpk, wsig, cnoop, history>>
    /\ UNCHANGED <<files, reader>>

\* Line 62: running = True.
start_capture_set(c) ==
    /\ cpc[c] = "s62"
    /\ running' = TRUE
    /\ cpc' = [cpc EXCEPT ![c] = "s63"]
    /\ UNCHANGED <<loop_thread, last_capture_file, wpc, wts, wpk, wsig, cnoop, history>>
    /\ UNCHANGED <<files, reader>>

\* Line 63: loop_thread = threading.Thread(target=background_loop).
start_capture_create(c) ==
    /\ cpc[c] = "s63"
    /\ LET w == CHOOSE x \in unborn : \A y \in unborn : x <= y
       IN /\ wpc' = [wpc EXCEPT ![w] = "created"]
          /\ loop_thread' = w
    /\ cpc' = [cpc EXCEPT ![c] = "s64"]
    /\ UNCHANGED <<running, last_capture_file, wts, wpk, wsig, cnoop, history>>
    /\ UNCHANGED <<files, reader>>

\* Lines 64-65: loop_thread.start() on the thread the global names now.
\* Thread.start() raises RuntimeError on a thread started before.
start_capture_start(c) ==
    /\ cpc[c] = "s64"
    /\ IF started(loop_thread)
       THEN /\ cpc' = [cpc EXCEPT ![c] = "s_err"]
            /\ wpc' = wpc
       ELSE /\ cpc' = [cpc EXCEPT ![c] = "idle"]
            /\ wpc' = [wpc EXCEPT ![loop_thread] = "L44"]
    /\ UNCHANGED <<running, loop_thread, last_capture_file, wts, wpk, wsig, cnoop, history>>
    /\ UNCHANGED <<files, reader>>

\* The RuntimeError leaves start_capture; the request fails.
start_capture_raise(c) ==
    /\ cpc[c] = "s_err"
    /\ cpc' = [cpc EXCEPT ![c] = "idle"]
    /\ UNCHANGED <<running, loop_thread, last_capture_file, wpc, wts, wpk, wsig, cnoop, history>>
    /\ UNCHANGED <<files, reader>>

----------------------------------------------------------------------------
\* stop_capture (live_capture_loop.py lines 68-76)

\* Line 70: the call and running = False.
stop_capture_call(c) ==
    /\ free(c)
    /\ calls < MaxCalls
    /\ calls' = calls + 1
    /\ stopped' = \A d \in Callers : cpc[d] \notin StartPcs
    /\ cnoop' = [cnoop EXCEPT ![c] = ~running]
    /\ running' = FALSE
    /\ cpc' = [cpc EXCEPT ![c] = "t73"]
    /\ wsig' = wsig \cup {w \in Workers : wpc[w] = "L21"}
    /\ UNCHANGED <<loop_thread, last_capture_file, wpc, wts, wpk>>
    /\ UNCHANGED <<files, reader>>

\* Line 73 without is_alive(): every thread that was created is joined.
ShouldJoinUnchecked(t) == TRUE

\* Line 73, right operand: `loop_thread.is_alive()`.
ShouldJoin(t) == is_alive(t)

\* Line 73: `if loop_thread is not None and loop_thread.is_alive()`, both
\* operands on the thread the global names when is_alive is called (a
\* loop_thread that is set is never None again); line 76 when it is false.
stop_capture_check(c) ==
    /\ cpc[c] = "t73"
    /\ IF loop_thread # None /\ ShouldJoin(loop_thread)
       THEN /\ cpc' = [cpc EXCEPT ![c] = "t74"]
            /\ cnoop' = cnoop
       ELSE /\ cpc' = [cpc EXCEPT ![c] = "idle"]
            /\ cnoop' = [cnoop EXCEPT ![c] = FALSE]
    /\ UNCHANGED <<running, loop_thread, last_capture_file, wpc, wts, wpk, wsig, history>>
    /\ UNCHANGED <<files, reader>>

\* Lines 74-76: loop_thread.join(timeout=1), on the thread the global names
\* now, then return True.  join() returns when the thread has terminated or
\* the timeout has passed, whichever is first; it raises RuntimeError on a
\* thread that was never started.
stop_capture_join(c) ==
    /\ cpc[c] = "t74"
    /\ IF started(loop_thread)
       THEN cpc' = [cpc EXCEPT ![c] = "idle"]
       ELSE cpc' = [cpc EXCEPT ![c] = "t_err"]
    /\ cnoop' = [cnoop EXCEPT ![c] = FALSE]
    /\ UNCHANGED <<running, loop_thread, last_capture_file, wpc, wts, wpk, wsig, history>>
    /\ UNCHANGED <<files, reader>>

\* The RuntimeError leaves stop_capture; the request fails.
stop_capture_raise(c) ==
    /\ cpc[c] = "t_err"
    /\ cpc' = [cpc EXCEPT ![c] = "idle"]
    /\ UNCHANGED <<running, loop_thread, last_capture_file, wpc, wts, wpk, wsig, cnoop, history>>
    /\ UNCHANGED <<files, reader>>

----------------------------------------------------------------------------
\* background_loop (lines 41-53) and capture_once (lines 14-39), run by a
\* started thread w

goto(w, l) == wpc' = [wpc EXCEPT ![w] = l]

\* capture_once is left after line 27, by a return or an exception: its
\* locals `timestamp` and `packets` are gone.
return(w) ==
    /\ wts' = [wts EXCEPT ![w] = None]
    /\ wpk' = [wpk EXCEPT ![w] = 0]

\* Line 44: running = True.
background_loop_enter(w) ==
    /\ wpc[w] = "L44"
    /\ running' = TRUE
    /\ goto(w, "L46")
    /\ UNCHANGED <<loop_thread, last_capture_file, wts, wpk, wsig, cpc, cnoop, history>>
    /\ UNCHANGED <<files, reader>>

\* Line 46: `while running`; the thread ends when it is false.
background_loop_while(w) ==
    /\ wpc[w] = "L46"
    /\ goto(w, IF running THEN "L17" ELSE "done")
    /\ UNCHANGED <<running, loop_thread, last_capture_file, wts, wpk, wsig, cpc, cnoop, history>>
    /\ UNCHANGED <<files, reader>>

\* Lines 17-18 and the call of sniff (line 21): `if not running: return None`.
capture_once_check(w) ==
    /\ wpc[w] = "L17"
    /\ goto(w, IF running THEN "L21" ELSE "L50")
    /\ UNCHANGED <<running, loop_thread, last_capture_file, wts, wpk, wsig, cpc, cnoop, history>>
    /\ UNCHANGED <<files, reader>>

\* Line 22 without the length test: `if not running: return None`.
NoCaptureUnchecked(packets) == ~running

\* Line 22: `if len(packets) == 0 or not running`.
NoCapture(packets) == packets = 0 \/ ~running

\* Lines 21-27: sniff(timeout=duration) returns, with packets or none;
\* `if len(packets) == 0 or not running: return None`; then
\* timestamp = datetime.now()..., a stamp no other capture has.
capture_once_sniff(w) ==
    /\ wpc[w] = "L21"
    /\ \E packets \in {0, 1} :
         IF NoCapture(packets)
         THEN /\ goto(w, "L50")
              /\ UNCHANGED <<now, wts, wpk>>
         ELSE /\ now < MaxCaptures
              /\ now' = now + 1
              /\ wts' = [wts EXCEPT ![w] = now + 1]
              /\ wpk' = [wpk EXCEPT ![w] = packets]
              /\ goto(w, "L29")
    /\ wsig' = wsig \ {w}
    /\ UNCHANGED <<running, loop_thread, last_capture_file, cpc, cnoop, history>>
    /\ UNCHANGED <<pcaps, csv, reader>>

\* Line 21: sniff raises (no permission, no device).  Nothing catches it in
\* capture_once or background_loop: the thread ends.
capture_once_sniff_raise(w) ==
    /\ wpc[w] = "L21"
    /\ goto(w, "crashed")
    /\ wsig' = wsig \ {w}
    /\ UNCHANGED <<running, loop_thread, last_capture_file, wts, wpk, cpc, cnoop, history>>
    /\ UNCHANGED <<files, reader>>

\* Lines 28-29: last_capture_file = f"capture_{timestamp}.pcap".
capture_once_record(w) ==
    /\ wpc[w] = "L29"
    /\ last_capture_file' = wts[w]
    /\ goto(w, "L32")
    /\ UNCHANGED <<running, loop_thread, wts, wpk, wsig, cpc, cnoop, history>>
    /\ UNCHANGED <<files, reader>>

\* Line 32: wrpcap(pcap_path, packets).
capture_once_wrpcap(w) ==
    /\ wpc[w] = "L32"
    /\ pcaps' = pcaps \cup {wts[w]}
    /\ goto(w, "L35")
    /\ UNCHANGED <<running, loop_thread, last_capture_file, wts, wpk, wsig, cpc, cnoop, history>>
    /\ UNCHANGED <<now, csv, reader>>

\* Line 32: wrpcap raises (disk error); the thread ends.
capture_once_wrpcap_raise(w) ==
    /\ wpc[w] = "L32"
    /\ goto(w, "crashed")
    /\ return(w)
    /\ UNCHANGED <<running, loop_thread, last_capture_file, wsig, cpc, cnoop, history>>
    /\ UNCHANGED <<files, reader>>

\* Lines 35-36: `if not running: return None`.
capture_once_recheck(w) ==
    /\ wpc[w] = "L35"
    /\ IF running
       THEN goto(w, "L38") /\ UNCHANGED <<wts, wpk>>
       ELSE goto(w, "L50") /\ return(w)
    /\ UNCHANGED <<running, loop_thread, last_capture_file, wsig, cpc, cnoop, history>>
    /\ UNCHANGED <<files, reader>>

\* Lines 38-39: run_pipeline(pcap_path, "live/live_predictions.csv") returns,
\* the results file replaced by its table; return df.
capture_once_pipeline(w) ==
    /\ wpc[w] = "L38"
    /\ csv' = ResultsFile(wts[w])
    /\ goto(w, "L50")
    /\ return(w)
    /\ UNCHANGED <<running, loop_thread, last_capture_file, wsig, cpc, cnoop, history>>
    /\ UNCHANGED <<now, pcaps, reader>>

\* Line 38: run_pipeline raises, the results file as it was; the thread ends.
capture_once_pipeline_raise(w) ==
    /\ wpc[w] = "L38"
    /\ goto(w, "crashed")
    /\ return(w)
    /\ UNCHANGED <<running, loop_thread, last_capture_file, wsig, cpc, cnoop, history>>
    /\ UNCHANGED <<files, reader>>

\* background_loop without lines 50-51: the cycle is always followed by the
\* sleep of line 53.
ShouldBreakNever == FALSE

\* Line 50: `if not running`.
ShouldBreak == ~running

\* Lines 50-51: `if not running: break`, and the thread ends.
background_loop_recheck(w) ==
    /\ wpc[w] = "L50"
    /\ goto(w, IF ShouldBreak THEN "done" ELSE "L53")
    /\ UNCHANGED <<running, loop_thread, last_capture_file, wts, wpk, wsig, cpc, cnoop, history>>
    /\ UNCHANGED <<files, reader>>

\* Lines 53 and 46: time.sleep(1) is over, and `while running` again.
background_loop_sleep(w) ==
    /\ wpc[w] = "L53"
    /\ goto(w, IF running THEN "L17" ELSE "done")
    /\ UNCHANGED <<running, loop_thread, last_capture_file, wts, wpk, wsig, cpc, cnoop, history>>
    /\ UNCHANGED <<files, reader>>

----------------------------------------------------------------------------
\* live_status (api_server.py lines 184-252)

\* The explicit absent-value marker (Python None) in a response.
Null == "None"

\* The test `obj == np.nan` in place of pd.isna(obj): NaN equals nothing,
\* itself included.
isna_by_equality(v) == FALSE

\* pd.isna(obj) (line 191; np.isnan agrees with it on a float), which is
\* also how df.replace finds its np.nan key and the negation of pd.notna.
isna(v) == v = NaN

\* replace_nan_with_none on one field value (lines 190-197).
replace_nan_value(v) == IF isna(v) THEN Null ELSE v

\* replace_nan_with_none on a list of row dicts (lines 186-189).
replace_nan_with_none(rows) ==
    [i \in 1..Len(rows) |->
        [k \in DOMAIN rows[i] |-> replace_nan_value(rows[i][k])]]

\* Line 219: df.replace({np.nan: None, pd.NA: None}).
df_replace(rows) ==
    [i \in 1..Len(rows) |->
        [k \in DOMAIN rows[i] |-> IF isna(rows[i][k]) THEN Null ELSE rows[i][k]]]

\* df["Label"].value_counts().get(l, 0) (lines 221-228).
label_count(rows, l) == Cardinality({i \in 1..Len(rows) : rows[i].Label = l})

result_summary(rows) ==
    [BENIGN |-> label_count(rows, "BENIGN"),
     ANOMALY |-> label_count(rows, "ANOMALY"),
     ATTACK |-> label_count(rows, "ATTACK")]

\* Lines 231-236 without the filter of line 232: value_counts of Attack_Type
\* over all the rows.
attack_types_of_all_rows(rows) ==
    LET keys == {k \in {rows[i].Attack_Type : i \in 1..Len(rows)} :
                    ~isna(k) /\ k # Null}
    IN [k \in keys |-> Cardinality({i \in 1..Len(rows) : rows[i].Attack_Type = k})]

\* Lines 231-236: value_counts of Attack_Type over the rows labeled ATTACK;
\* value_counts drops the missing values (None and NaN), and line 236 keeps
\* the keys that pd.notna.
attack_types(rows) ==
    LET attack_df == {i \in 1..Len(rows) : rows[i].Label = "ATTACK"}
        keys == {k \in {rows[i].Attack_Type : i \in attack_df} :
                    ~isna(k) /\ k # Null}
    IN [k \in keys |-> Cardinality({i \in attack_df : rows[i].Attack_Type = k})]

\* Line 239 on a second read of the results file instead of df.
AllFlowsFrameReread(d) == csv.rows

\* Line 239: the frame all_flows is taken from, the df read at line 216.
AllFlowsFrame(d) == d

\* is_running() (live_capture_loop.py lines 78-80).
is_running == running

\* get_last_capture() that names no capture ever.
get_last_capture_unset == None

\* get_last_capture() (live_capture_loop.py lines 82-85):
\* `return last_capture_file if last_capture_file else None`.
get_last_capture ==
    IF last_capture_file # None THEN last_capture_file ELSE None

\* Line 202: running = is_running().
live_status_is_running ==
    /\ rpc = "idle"
    /\ rrun' = is_running
    /\ rpc' = "r203"
    /\ UNCHANGED <<rlast, df, rflows, supervisor, files>>

\* Line 203: last_capture = get_last_capture().
live_status_get_last_capture ==
    /\ rpc = "r203"
    /\ rlast' = get_last_capture
    /\ rpc' = "r206"
    /\ UNCHANGED <<rrun, df, rflows, supervisor, files>>

\* Line 206: `if not csv_path.exists()`.
live_status_exists ==
    /\ rpc = "r206"
    /\ rpc' = IF csv.exists THEN "r216" ELSE "r207"
    /\ UNCHANGED <<rrun, rlast, df, rflows, supervisor, files>>

\* Lines 216-219: df = pd.read_csv(csv_path), then df.replace.
live_status_read_csv ==
    /\ rpc = "r216"
    /\ df' = df_replace(csv.rows)
    /\ rpc' = "r239"
    /\ UNCHANGED <<rrun, rlast, rflows, supervisor, files>>

\* Lines 239-241: all_flows = replace_nan_with_none(df...to_dict("records")).
live_status_all_flows ==
    /\ rpc = "r239"
    /\ rflows' = replace_nan_with_none(df_replace(AllFlowsFrame(df)))
    /\ rpc' = "r243"
    /\ UNCHANGED <<rrun, rlast, df, supervisor, files>>

\* The response of lines 207-214 (no results file) and 243-252.
Response ==
    IF rpc = "r207"
    THEN [running |-> rrun, last_capture |-> rlast, flows |-> 0,
          summary |-> [BENIGN |-> 0, ANOMALY |-> 0, ATTACK |-> 0],
          attack_types |-> <<>>, all_flows |-> <<>>]
    ELSE [running |-> rrun, last_capture |-> rlast, flows |-> Len(df),
          summary |-> result_summary(df),
          attack_types |-> attack_types(df), all_flows |-> rflows]

\* Lines 207 and 252: return; the request is over.
live_status_return ==
    /\ rpc \in {"r207", "r243"}
    /\ rpc' = "idle"
    /\ rrun' = FALSE
    /\ rlast' = None
    /\ df' = <<>>
    /\ rflows' = <<>>
    /\ UNCHANGED <<supervisor, files>>

----------------------------------------------------------------------------
control(c) ==
    \/ start_capture_call(c)
    \/ start_capture_return(c)
    \/ start_capture_set(c)
    \/ start_capture_create(c)
    \/ start_capture_start(c)
    \/ start_capture_raise(c)
    \/ stop_capture_call(c)
    \/ stop_capture_check(c)
    \/ stop_capture_join(c)
    \/ stop_capture_raise(c)

worker(w) ==
    \/ background_loop_enter(w)
    \/ background_loop_while(w)
    \/ capture_once_check(w)
    \/ capture_once_sniff(w)
    \/ capture_once_sniff_raise(w)
    \/ capture_once_record(w)
    \/ capture_once_wrpcap(w)
    \/ capture_once_wrpcap_raise(w)
    \/ capture_once_recheck(w)
    \/ capture_once_pipeline(w)
    \/ capture_once_pipeline_raise(w)
    \/ background_loop_recheck(w)
    \/ background_loop_sleep(w)

live_status ==
    \/ live_status_is_running
    \/ live_status_get_last_capture
    \/ live_status_exists
    \/ live_status_read_csv
    \/ live_status_all_flows
    \/ live_status_return

starting(c) ==
    \/ start_capture_call(c)
    \/ start_capture_return(c)
    \/ start_capture_set(c)
    \/ start_capture_create(c)
    \/ start_capture_start(c)
    \/ start_capture_raise(c)

Next ==
    \/ \E c \in Callers : control(c)
    \/ \E w \in Workers : worker(w)

\* The supervisor: concurrent control calls and the worker threads.
Spec == Init /\ [][Next]_vars

NextStart ==
    \/ \E c \in Callers : starting(c)
    \/ \E w \in Workers : worker(w)

\* The supervisor when stop_capture() is never called.
StartSpec == Init /\ [][NextStart]_vars


\* Control calls made one after the other, by one caller (the RuntimeErrors
\* of start_capture and stop_capture need two calls in progress).
sequential(c) ==
    \/ start_capture_call(c)
    \/ start_capture_return(c)
    \/ start_capture_set(c)
    \/ start_capture_create(c)
    \/ start_capture_start(c)
    \/ stop_capture_call(c)
    \/ stop_capture_check(c)
    \/ stop_capture_join(c)

NextStatus ==
    \/ sequential(1)
    \/ \E w \in Workers : worker(w)
    \/ live_status

NextSeq ==
    \/ sequential(1)
    \/ \E w \in Workers : worker(w)

\* The supervisor, its control calls made one after the other.
SeqSpec == Init /\ [][NextSeq]_vars

\* A live_status request beside the supervisor, its control calls made one
\* after the other.
StatusSpec == Init /\ [][NextStatus]_vars

\* live_status requests on a results file that holds any table, the capture
\* loop never started.
TableSpec == InitTable /\ [][live_status]_vars

----------------------------------------------------------------------------
\* Properties

\* Threads that Thread.start() has launched.
launches == Cardinality({w \in Workers : started(w)})

alive == {w \in Workers : is_alive(w)}

\* C1: with no stop_capture() call (StartSpec), once every start_capture()
\* call made has returned, exactly one worker thread has been launched.
C1_OneLaunch ==
    (calls > 0 /\ \A c \in Callers : cpc[c] = "idle") => launches = 1

\* C2: at most one worker thread executing background_loop is alive, also
\* when the control calls are made one after the other (SeqSpec).
C2_AtMostOneWorker == Cardinality(alive) <= 1

\* C3: after stop_capture() has been called, with no start_capture() called
\* since (and none in progress at the call), is_running() is false.
C3_StoppedStaysFalse == stopped => ~running

\* C4: no failure inside a capture cycle terminates the worker thread.
C4_NoWorkerCrash == \A w \in Workers : wpc[w] # "crashed"

\* C5: running = true implies that a worker thread is alive, or pending (a
\* start_capture() call has set running and is about to launch its thread).
C5_RunningHasWorker ==
    running => (alive # {} \/ \E c \in Callers : cpc[c] \in {"s63", "s64"})

\* C6: last_capture_file changes only in the step in which a cycle's
\* run_pipeline call returns successfully.
C6_CommitOnlyOnSuccess ==
    [][last_capture_file' # last_capture_file
         => \E w \in Workers : wpc[w] = "L38" /\ wpc'[w] = "L50"]_vars

\* C8: stop_capture() always returns successfully: it never raises.
C8_StopReturns == \A c \in Callers : cpc[c] # "t_err"

\* C5 but for the failures of C4: while no worker thread has been terminated
\* by an exception, running = true implies a worker alive or pending.
C5_RunningHasWorkerUnlessCrash ==
    C4_NoWorkerCrash => C5_RunningHasWorker

\* The snapshot live_status returns for the results table T.
SnapshotOf(T) ==
    [flows |-> Len(T),
     summary |-> result_summary(T),
     attack_types |-> attack_types(T),
     all_flows |-> replace_nan_with_none(df_replace(T))]

effects == <<running, loop_thread, last_capture_file, wpc, pcaps, csv>>

\* C9: a start_capture() call that finds running true takes the early return
\* of line 60, and neither of its steps changes running, loop_thread,
\* last_capture_file, a thread or a file.
C9_StartWhileRunningNoEffect ==
    [][\A c \in Callers :
         /\ (free(c) /\ running /\ cpc'[c] \notin {"idle", "t73"})
               => (cpc'[c] = "s60" /\ UNCHANGED effects)
         /\ (cpc[c] = "s60" /\ cpc'[c] # "s60")
               => (cpc'[c] = "idle" /\ UNCHANGED effects)]_vars

\* A start_capture() call found running true and is returning.
C9_Witness == \E c \in Callers : cpc[c] = "s60"

\* C10 as claimed: a stop_capture() call that found running false awaits no
\* worker (it never reaches the join of line 74).
C10_StopWhenNotRunningAwaitsNothing ==
    \A c \in Callers : cnoop[c] => cpc[c] # "t74"

\* C10 as amended: no step of a stop_capture() call that found running false
\* changes running, loop_thread, last_capture_file, a thread or a file; the
\* call returns at line 76 without waiting unless the thread loop_thread
\* names is still alive, and only then goes on to join it.
C10_StopWhenNotRunningNoEffect ==
    [][\A c \in Callers :
         /\ (free(c) /\ ~running /\ cpc'[c] = "t73")
               => (cnoop'[c] /\ ~running' /\ UNCHANGED effects)
         /\ (cnoop[c] /\ cpc[c] = "t73" /\ cpc'[c] # "t73")
               => /\ UNCHANGED effects
                  /\ cpc'[c] = IF loop_thread # None /\ is_alive(loop_thread)
                               THEN "t74" ELSE "idle"
         /\ (cnoop[c] /\ cpc[c] = "t74" /\ cpc'[c] # "t74")
               => UNCHANGED effects]_vars

\* A stop_capture() call found running false, and the thread loop_thread
\* names has ended: the call is about to return without waiting.
C10_Witness ==
    \E c \in Callers :
        cnoop[c] /\ cpc[c] = "t73" /\ loop_thread # None /\ ~is_alive(loop_thread)

\* The steps of a cycle after line 23: record, write the raw capture, run
\* the pipeline.
afterCapture == {"L29", "L32", "L35", "L38"}

\* C11: a cycle whose sniff returned zero packets ends there: the step leaves
\* last_capture_file, the raw captures and the results file unchanged and
\* the cycle returns to background_loop; no cycle is past line 23 (record,
\* wrpcap, run_pipeline) with zero packets.
C11_EmptyCaptureIsNoOp ==
    [][\A w \in Workers :
         /\ (wpc[w] = "L21" /\ wpc'[w] \notin {"L21", "crashed"} /\ wpk'[w] = 0)
               => (wpc'[w] = "L50" /\ UNCHANGED <<last_capture_file, pcaps, csv>>)
         /\ (wpc'[w] \in afterCapture) => wpk'[w] > 0]_vars

\* A cycle has returned to background_loop with running still true and no
\* stop_capture() call or non-empty capture so far: its sniff returned
\* zero packets.
C11_Witness ==
    \E w \in Workers : wpc[w] = "L50" /\ now = 0 /\ calls = 1 /\ running

\* The rows of the table T labeled ATTACK whose attack type is t.
attacks(T, t) == {i \in 1..Len(T) : T[i].Label = "ATTACK" /\ T[i].Attack_Type = t}

\* C12: the snapshot of a results table T: flows is the number of rows of T;
\* summary has exactly the keys BENIGN, ANOMALY and ATTACK, each the number
\* of rows with that label (rows with another label are counted in none);
\* attack_types maps each attack type to the number of ATTACK rows that have
\* it; a missing attack type and a row not labeled ATTACK give no key.
C12_SnapshotCounts ==
    rpc = "r243" =>
        LET T == csv.rows
            R == Response
        IN /\ R.flows = Len(T)
           /\ DOMAIN R.summary = {"BENIGN", "ANOMALY", "ATTACK"}
           /\ \A l \in DOMAIN R.summary :
                 R.summary[l] = Cardinality({i \in 1..Len(T) : T[i].Label = l})
           /\ DOMAIN R.attack_types = {t \in AttackTypeNames : attacks(T, t) # {}}
           /\ \A t \in DOMAIN R.attack_types :
                 R.attack_types[t] = Cardinality(attacks(T, t))

\* A snapshot of a table with a row whose label is none of the three, an
\* ATTACK row without attack type, and a row not labeled ATTACK that has one.
C12_Witness ==
    /\ rpc = "r243"
    /\ \E i \in 1..Len(csv.rows) : csv.rows[i].Label \notin DOMAIN Response.summary
    /\ \E i \in 1..Len(csv.rows) :
          csv.rows[i].Label = "ATTACK" /\ csv.rows[i].Attack_Type = NaN
    /\ \E i \in 1..Len(csv.rows) :
          csv.rows[i].Label # "ATTACK" /\ csv.rows[i].Attack_Type # NaN

\* C13: the snapshot of a results table T holds the NaN sentinel nowhere:
\* all_flows has the rows of T in order, field by field, with every NaN
\* replaced by None and every other value as it is, and no key of
\* attack_types is NaN.
C13_NaNBecomesNone ==
    rpc = "r243" =>
        LET T == csv.rows
            R == Response
        IN /\ Len(R.all_flows) = Len(T)
           /\ \A i \in 1..Len(T) :
                 /\ DOMAIN R.all_flows[i] = DOMAIN T[i]
                 /\ \A k \in DOMAIN T[i] :
                       /\ R.all_flows[i][k] # NaN
                       /\ R.all_flows[i][k] = IF T[i][k] = NaN THEN Null ELSE T[i][k]
           /\ NaN \notin DOMAIN R.attack_types

\* A snapshot of a table with a NaN score in one row and a missing attack
\* type in an ATTACK row, both returned as None.
C13_Witness ==
    /\ rpc = "r243"
    /\ \E i \in 1..Len(csv.rows) :
          csv.rows[i].Score = NaN /\ Response.all_flows[i].Score = Null
    /\ \E i \in 1..Len(csv.rows) :
          /\ csv.rows[i].Label = "ATTACK" /\ csv.rows[i].Attack_Type = NaN
          /\ Response.all_flows[i].Attack_Type = Null

\* C14: a live_status request that finds no results file returns, in every
\* state of the supervisor: running and last_capture are the supervisor's
\* running and last_capture_file as the request read them (lines 202, 203),
\* flows is 0, the three summary counts are 0, attack_types and all_flows
\* are empty; the request takes this return exactly when the file is absent.
C14_NoFileSnapshot ==
    [][/\ (rpc = "idle" /\ rpc' = "r203") => rrun' = running
       /\ (rpc = "r203" /\ rpc' = "r206")
             => (rlast' = last_capture_file /\ rrun' = rrun)
       /\ (rpc = "r206" /\ rpc' # "r206")
             => /\ (rpc' = "r207") <=> ~csv.exists
                /\ rrun' = rrun /\ rlast' = rlast
       /\ (rpc = "r206" /\ rpc' = "r207")
             => Response' = [running |-> rrun, last_capture |-> rlast,
                             flows |-> 0,
                             summary |-> [BENIGN |-> 0, ANOMALY |-> 0, ATTACK |-> 0],
                             attack_types |-> <<>>, all_flows |-> <<>>]
       /\ (rpc = "r207" /\ rpc' # "r207") => rpc' = "idle"]_vars

\* A request found no results file while the supervisor is running and
\* last_capture_file names a capture.
C14_Witness == rpc = "r207" /\ rrun /\ rlast # None /\ ~csv.exists

\* C15: running changes only in a step of start_capture() (line 62) or of
\* stop_capture() (line 70); no step of a worker thread changes it.
C15_OnlyControlWritesRunning ==
    [][running' # running
         => \E c \in Callers :
               \/ cpc[c] = "s62" /\ cpc'[c] = "s63"
               \/ cpc[c] = "idle" /\ cpc'[c] = "t73"]_vars

\* C16: when stop_capture() was called while a cycle was inside sniff, the
\* cycle returns to background_loop at the end of sniff, whatever control
\* calls followed the stop: it does not go on to record last_capture_file,
\* write the raw capture or run the pipeline.
C16_StopDuringCaptureIsNoOp ==
    [][\A w \in wsig :
         (wpc[w] = "L21" /\ wpc'[w] \notin {"L21", "crashed"})
            => (wpc'[w] = "L50" /\ UNCHANGED <<last_capture_file, pcaps, csv>>)]_vars

\* C17: a snapshot taken with a results file present never names, as
\* last_capture, a capture later than the one whose pipeline run produced
\* its rows (a capture whose pipeline has not completed, or has failed):
\* last_capture names the capture of the rows, or lags behind it.
C17_LastCaptureNamesRows ==
    rpc = "r243" =>
        \E ts \in 1..MaxCaptures :
            df = df_replace(PipelineTable(ts)) /\ rlast <= ts

\* C18: the step a worker takes after its cycle has returned (line 50) ends
\* the thread when running is false, with no sleep and no further cycle, and
\* goes to the sleep of line 53 when running is true; a worker sleeps only
\* so, and starts a cycle only from the loop test or after the sleep.
C18_BreakAfterCycle ==
    [][\A w \in Workers :
         /\ (wpc[w] = "L50" /\ wpc'[w] # "L50")
               => wpc'[w] = IF running THEN "L53" ELSE "done"
         /\ (wpc[w] # "L53" /\ wpc'[w] = "L53")
               => (wpc[w] = "L50" /\ running)
         /\ (wpc[w] # "L17" /\ wpc'[w] = "L17")
               => (wpc[w] \in {"L46", "L53"} /\ running)]_vars

\* A cycle that captured packets and ran to its end has returned, and
\* running is false at the re-check.
C18_Witness ==
    \E w \in Workers : wpc[w] = "L50" /\ ~running /\ csv.exists

\* C19: every value in the all_flows of a snapshot is finite or None: a NaN
\* or an infinity of the results table is returned as None.
C19_SnapshotIsFinite ==
    rpc = "r243" =>
        \A i \in 1..Len(Response.all_flows) :
            \A k \in DOMAIN Response.all_flows[i] :
                Response.all_flows[i][k] \notin {NaN, Inf}

\* Worker threads inside a capture cycle: in sniff, or between the capture
\* and the return of run_pipeline.
inCycle == {w \in Workers : wpc[w] \in {"L21"} \cup afterCapture}

\* C20: at most one capture cycle is in progress at a time, whatever the
\* sequence of start_capture() and stop_capture() calls.
C20_OneCycleAtATime == Cardinality(inCycle) <= 1
=============================================================================
